---------------------------- MODULE Spec2Model ----------------------------
(***************************************************************************)
(* Model of the candle aggregation service (compolabs/spark-candles).      *)
(*                                                                         *)
(* The CandleStore (src/src/storage/candles.rs) is a map                   *)
(* symbol -> interval -> Vec<Candle>.  add_price folds one trade into one  *)
(* series under the store's write lock, so one call is one atomic step.    *)
(*                                                                         *)
(* Instants (chrono DateTime<Utc> built with 0 nanoseconds) are modelled   *)
(* by their whole seconds since the epoch.  Prices and volumes are f64 in  *)
(* the code; the model draws them from small integers, which f64           *)
(* represents and adds exactly, so f64 arithmetic on them is integer       *)
(* arithmetic.                                                             *)
(***************************************************************************)
EXTENDS Integers, Sequences, FiniteSets, TLC

VARIABLES
    candles,    \* CandleStore.candles: symbol -> interval -> sequence of candles
    history,    \* history variable: the add_price calls made so far, in order
    probe,      \* a get_period_start evaluation on its own: arguments and result
    event,      \* the record most recently handed to handle_order_event
    ing,        \* one Ingestor task: its position and its local variables
    env,        \* the task's surroundings: chain head, refresh timer, upstream;
                \* env.delivered counts the records handed to handle_order_event
    sup,        \* main, the Supervisor and its Ingestor tasks, the shutdown channel
    lock        \* CandleStore.candles' RwLock, and the calls that hold or await it

vars == <<candles, history, probe, event, ing, env, sup, lock>>

-----------------------------------------------------------------------------
(* Bounds of the model *)

\* MAX_CANDLES is 1000000 in the code (candles.rs:98); the model scales the
\* retention limit down so that eviction happens within a few calls.
MAX_CANDLES == 3

\* Number of add_price calls in one behaviour.
MaxCalls == 3

\* Event times reach MaxStep whole intervals past the first event time.
MaxStep == 3

\* SpecPeriod draws event times up to MaxMult intervals past its base points.
MaxMult == 2

\* Records carry block numbers 1..MaxBlock; the chain head stays within them.
MaxBlock == 4

\* Number of records handed to handle_order_event in one behaviour of SpecHandler.
MaxEvents == 2

\* The chain head stays at or below MaxHead in a behaviour of SpecIngest.
MaxHead == 3

\* Number of records the upstream delivers in one behaviour of SpecIngest.
MaxRecords == 2

\* Number of times the refresh timer comes due after its first, immediate tick.
MaxTicks == 1

\* Number of add_price calls in one behaviour of SpecConcurrent.
MaxFolds == 2

\* The counts asked of get_candles are 0..MaxCount.
MaxCount == 4

\* The chain head at the start of a behaviour of SpecBackfill is at most MaxLatest.
MaxLatest == 5

\* batch_size is 10000 in the code (pangea.rs:117) and buffer_blocks is 10
\* (pangea.rs:182); the model scales both down to the few blocks of its chain.
BatchSize == 2

BufferBlocks == 1

-----------------------------------------------------------------------------
(* Inputs *)

\* The interval list of handle_order_event.
Intervals == {60, 180, 300, 900, 1800, 3600, 86400, 604800, 2592000}

\* The symbol handle_order_event passes to add_price.
Symbols == {"AAPL"}

\* The (price, amount) pairs of the trades offered to add_price.
Trades == {<<100, 1>>, <<110, 2>>, <<90, 4>>}

\* 2023-11-14 22:13:20 UTC, a Tuesday; aligned to none of the intervals.
BaseTime == 1700000000

\* Event times offered to add_price for a series of the given interval: the
\* base time, a second instant in the base time's bucket, and instants whole
\* intervals later.  Any order of them is allowed, also going back in time.
EventTimes(interval) ==
    {BaseTime + k * interval : k \in 0..MaxStep} \cup {BaseTime + 30}

\* Event times offered to get_period_start on its own: around the epoch and
\* around the base time, on both sides of bucket boundaries.
PeriodTimes ==
    {t \in {b + n * i + d : b \in {0, 1699833600, 1699920000, BaseTime},
                            i \in Intervals,
                            n \in 0..MaxMult, d \in {-1, 0, 1}} : t >= 0}

-----------------------------------------------------------------------------
(* Candles *)

Candle(o, h, l, c, v, t) ==
    [open |-> o, high |-> h, low |-> l, close |-> c, volume |-> v, timestamp |-> t]

\* f64::max and f64::min on values that are not NaN.
Max(a, b) == IF a >= b THEN a ELSE b

Min(a, b) == IF a <= b THEN a ELSE b

Last(s) == s[Len(s)]

-----------------------------------------------------------------------------
(* get_period_start *)

\* Rust's % on i64: the remainder has the sign of the dividend.
RustRem(a, b) == IF a >= 0 THEN a % b ELSE -((-a) % b)

\* DateTime::date_naive: the calendar day, as days since 1970-01-01.
date_naive(t) == t \div 86400

\* NaiveDate::weekday().num_days_from_monday(); 1970-01-01 was a Thursday.
num_days_from_monday(day) == (day + 3) % 7

\* NaiveDate::and_hms_opt(0, 0, 0).and_local_timezone(Utc): midnight of the day.
midnight(day) == day * 86400

\* Lines 105-140.
get_period_start_epoch(t, interval) ==
    CASE interval = 86400 -> midnight(date_naive(t))
      [] OTHER -> t - RustRem(t, interval)

get_period_start_up(t, interval) ==
    CASE interval = 86400 -> midnight(date_naive(t))
      [] interval = 604800 ->
            midnight(date_naive(t) - num_days_from_monday(date_naive(t)))
      [] OTHER -> t - RustRem(t, interval) + interval

get_period_start(t, interval) ==
    CASE interval \in {60, 180, 300, 900, 3600} -> t - RustRem(t, interval)
      [] interval = 86400 -> midnight(date_naive(t))
      [] interval = 604800 ->
            midnight(date_naive(t) - num_days_from_monday(date_naive(t)))
      [] OTHER -> t - RustRem(t, interval)

-----------------------------------------------------------------------------
(* add_price *)

\* Lines 46-51: the event time as an instant, then its period start.
period_start_raw(event_time, interval) == event_time

period_start_of(event_time, interval) == get_period_start(event_time, interval)

\* Lines 57-60: the trade updates the current candle.
update_candle_low_max(last_candle, price, volume) ==
    [last_candle EXCEPT !.high = Max(last_candle.high, price),
                        !.low = Max(last_candle.low, price),
                        !.close = price,
                        !.volume = last_candle.volume + volume]

update_candle_overwrite(last_candle, price, volume) ==
    [last_candle EXCEPT !.high = Max(last_candle.high, price),
                        !.low = Min(last_candle.low, price),
                        !.close = price,
                        !.volume = volume]

update_candle_keep_volume(last_candle, price, volume) ==
    [last_candle EXCEPT !.high = Max(last_candle.high, price),
                        !.low = Min(last_candle.low, price),
                        !.close = price]

update_candle_keep_close(last_candle, price, volume) ==
    [last_candle EXCEPT !.high = Max(last_candle.high, price),
                        !.low = Min(last_candle.low, price),
                        !.volume = last_candle.volume + volume]

update_candle(last_candle, price, volume) ==
    [last_candle EXCEPT !.high = Max(last_candle.high, price),
                        !.low = Min(last_candle.low, price),
                        !.close = price,
                        !.volume = last_candle.volume + volume]

\* Lines 72-83: the gap-fill loop.
RECURSIVE fill_missing_inclusive(_, _, _, _, _)
fill_missing_inclusive(candle_list, missing_time, last_close, interval, period_start) ==
    IF missing_time <= period_start
    THEN fill_missing_inclusive(
             Append(candle_list,
                    Candle(last_close, last_close, last_close, last_close, 0,
                           missing_time)),
             missing_time + interval, last_close, interval, period_start)
    ELSE candle_list

RECURSIVE fill_missing_open(_, _, _, _, _)
fill_missing_open(candle_list, missing_time, last_close, interval, period_start) ==
    IF missing_time < period_start
    THEN fill_missing_open(
             Append(candle_list,
                    Candle(Last(candle_list).open, last_close, last_close,
                           last_close, 0, missing_time)),
             missing_time + interval, last_close, interval, period_start)
    ELSE candle_list

RECURSIVE fill_missing(_, _, _, _, _)
fill_missing(candle_list, missing_time, last_close, interval, period_start) ==
    IF missing_time < period_start
    THEN fill_missing(
             Append(candle_list,
                    Candle(last_close, last_close, last_close, last_close, 0,
                           missing_time)),
             missing_time + interval, last_close, interval, period_start)
    ELSE candle_list

\* Lines 98-101: candle_list.drain(0..(len - MAX_CANDLES)) when len > MAX_CANDLES.
drain_none(candle_list) == candle_list

drain_back(candle_list) ==
    IF Len(candle_list) > MAX_CANDLES
    THEN SubSeq(candle_list, 1, MAX_CANDLES)
    ELSE candle_list

drain(candle_list) ==
    IF Len(candle_list) > MAX_CANDLES
    THEN SubSeq(candle_list, Len(candle_list) - MAX_CANDLES + 1, Len(candle_list))
    ELSE candle_list

\* Lines 54-101 with the candle to update looked up by its bucket, not taken
\* from the end of the list.
fold_by_search(candle_list, interval, price, volume, period_start) ==
    IF \E k \in DOMAIN candle_list : candle_list[k].timestamp = period_start
    THEN LET k == CHOOSE j \in DOMAIN candle_list :
                      candle_list[j].timestamp = period_start
         IN  [candle_list EXCEPT ![k] = update_candle(candle_list[k], price, volume)]
    ELSE LET filled ==
                 IF candle_list # <<>>
                 THEN fill_missing(candle_list,
                                   Last(candle_list).timestamp + interval,
                                   Last(candle_list).close, interval, period_start)
                 ELSE candle_list
             pushed ==
                 Append(filled, Candle(price, price, price, price, volume, period_start))
         IN  drain(pushed)

\* Lines 54-101: the series after folding one trade into candle_list.
fold(candle_list, interval, price, volume, period_start) ==
    IF candle_list # <<>> /\ Last(candle_list).timestamp = period_start
    THEN [candle_list EXCEPT
            ![Len(candle_list)] = update_candle(Last(candle_list), price, volume)]
    ELSE LET filled ==
                 IF candle_list # <<>>
                 THEN fill_missing(candle_list,
                                   Last(candle_list).timestamp + interval,
                                   Last(candle_list).close, interval, period_start)
                 ELSE candle_list
             pushed ==
                 Append(filled, Candle(price, price, price, price, volume, period_start))
         IN  drain(pushed)

\* Lines 43-44: entry(symbol).or_default(), entry(interval).or_default().
HasSeries(store, symbol, interval) ==
    symbol \in DOMAIN store /\ interval \in DOMAIN store[symbol]

Series(store, symbol, interval) ==
    IF HasSeries(store, symbol, interval) THEN store[symbol][interval] ELSE <<>>

Put(store, symbol, interval, candle_list) ==
    LET symbol_candles ==
            IF symbol \in DOMAIN store THEN store[symbol] ELSE [i \in {} |-> <<>>]
        updated ==
            [i \in DOMAIN symbol_candles \cup {interval} |->
                IF i = interval THEN candle_list ELSE symbol_candles[i]]
    IN  [s \in DOMAIN store \cup {symbol} |->
            IF s = symbol THEN updated ELSE store[s]]

\* Lines 32-102 as a function of the store.
store_add_price(store, symbol, interval, price, volume, event_time) ==
    Put(store, symbol, interval,
        fold(Series(store, symbol, interval), interval, price, volume,
             period_start_of(event_time, interval)))

\* The entry the history keeps of a call.
call_record(symbol, interval, price, volume, event_time) ==
    [symbol |-> symbol, interval |-> interval, price |-> price,
     volume |-> volume, period_start |-> period_start_of(event_time, interval)]

add_price(symbol, interval, price, volume, event_time) ==
    /\ candles' = store_add_price(candles, symbol, interval, price, volume,
                                  event_time)
    /\ history' = Append(history,
                          call_record(symbol, interval, price, volume, event_time))
    /\ UNCHANGED <<probe, event, ing, env, sup, lock>>

\* One call of add_price.  A behaviour follows one series: the first call
\* picks the symbol and the interval, the later calls fold into that series.
AddPrice ==
    \E symbol \in Symbols, interval \in Intervals, trade \in Trades :
        \E event_time \in EventTimes(interval) :
            /\ Len(history) < MaxCalls
            /\ DOMAIN candles = {} \/ HasSeries(candles, symbol, interval)
            /\ add_price(symbol, interval, trade[1], trade[2], event_time)

-----------------------------------------------------------------------------
(* Specifications *)

\* CandleStore::new (lines 25-29).
Init ==
    /\ candles = [s \in {} |-> <<>>]
    /\ history = <<>>
    /\ probe = [op |-> "idle"]
    /\ event = <<>>
    /\ sup = [pc |-> "none"]
    /\ lock = [writer |-> "none"]
    /\ ing = [pc |-> "none"]
    /\ env = [delivered |-> 0]

Next == AddPrice

Spec == Init /\ [][Next]_vars

\* get_period_start on its own, on event times on both sides of bucket boundaries.
InitPeriod ==
    /\ candles = [s \in {} |-> <<>>]
    /\ history = <<>>
    /\ event = <<>>
    /\ sup = [pc |-> "none"]
    /\ lock = [writer |-> "none"]
    /\ ing = [pc |-> "none"]
    /\ env = [delivered |-> 0]
    /\ \E event_time \in PeriodTimes, interval \in Intervals :
          probe = [op |-> "pending", interval |-> interval,
                   event_time |-> event_time, period_start |-> 0]

GetPeriodStart ==
    /\ probe.op = "pending"
    /\ probe' = [probe EXCEPT !.op = "done",
                              !.period_start =
                                  get_period_start(probe.event_time, probe.interval)]
    /\ UNCHANGED <<candles, history, event, ing, env, sup, lock>>

NextPeriod == GetPeriodStart

SpecPeriod == InitPeriod /\ [][NextPeriod]_vars

-----------------------------------------------------------------------------
(* handle_order_event (src/src/indexer/order_event_handler.rs) *)

\* Option<T>: None and Some(v).
None == <<>>

Some(v) == <<v>>

\* The vec! of line 49, in its order.
IntervalList == <<60, 180, 300, 900, 1800, 3600, 86400, 604800, 2592000>>

\* The timestamp of a block: two blocks a minute from the base time on.
BlockTime(b) == BaseTime + 30 * b

\* PangeaOrderEvent, the fields the handler and the Ingestor read.
OrderEvent(b, type, price, amount) ==
    [block_number |-> b, block_timestamp |-> BlockTime(b), event_type |-> type,
     price |-> price, amount |-> amount]

\* Lines 50-58: one add_price for each interval from the k-th on.  acc holds the
\* store and the calls made.  The casts of price and amount (u128 as f64) are
\* exact on the values of the model.
\* Lines 50-58 left after the first add_price call, as a suspension point
\* inside the loop would allow.
fold_trade_interrupted(acc, k, asset, price, amount, event_time) ==
    [store |-> store_add_price(acc.store, asset, IntervalList[k], price, amount,
                               event_time),
     calls |-> Append(acc.calls,
                      call_record(asset, IntervalList[k], price, amount, event_time))]

RECURSIVE fold_trade(_, _, _, _, _, _)
fold_trade(acc, k, asset, price, amount, event_time) ==
    IF k > Len(IntervalList) THEN acc
    ELSE fold_trade(
             [store |-> store_add_price(acc.store, asset, IntervalList[k], price,
                                        amount, event_time),
              calls |-> Append(acc.calls,
                               call_record(asset, IntervalList[k], price, amount,
                                           event_time))],
             k + 1, asset, price, amount, event_time)

\* Lines 29-66 with event_time_old (line 41) passed on as the event time.
handle_order_event_old_time(acc, e) ==
    IF e.event_type = Some("Trade") /\ e.price # None /\ e.amount # None
    THEN fold_trade(acc, 1, "AAPL", e.price[1], e.amount[1],
                    1724996333 + (e.block_number - 1))
    ELSE acc

\* Lines 29-66 without the test of line 34.
handle_order_event_any_type(acc, e) ==
    IF e.event_type # None /\ e.price # None /\ e.amount # None
    THEN fold_trade(acc, 1, "AAPL", e.price[1], e.amount[1], e.block_timestamp)
    ELSE acc

\* Lines 29-66.
handle_order_event(acc, e) ==
    IF e.event_type # None
    THEN IF e.event_type[1] = "Trade"
         THEN IF e.price # None /\ e.amount # None
              THEN fold_trade(acc, 1, "AAPL", e.price[1], e.amount[1],
                              e.block_timestamp)
              ELSE acc
         ELSE acc
    ELSE acc

\* The records offered to the handler: trades, records of another type, records
\* without a type, with and without price and amount.
EventTypes == {None, Some("Trade"), Some("Open")}

PriceAmounts ==
    {<<Some(100), Some(1)>>, <<Some(110), Some(2)>>, <<None, Some(1)>>,
     <<Some(100), None>>}

HandlerEvents ==
    {OrderEvent(b, type, pa[1], pa[2]) :
        b \in 1..MaxBlock, type \in EventTypes, pa \in PriceAmounts}

HandleOrderEvent ==
    \E e \in HandlerEvents :
        /\ env.delivered < MaxEvents
        /\ LET r == handle_order_event([store |-> candles, calls |-> history], e)
           IN  /\ candles' = r.store
               /\ history' = r.calls
        /\ event' = e
        /\ env' = [env EXCEPT !.delivered = env.delivered + 1]
        /\ UNCHANGED <<probe, ing, sup, lock>>

NextHandler == HandleOrderEvent

SpecHandler == Init /\ [][NextHandler]_vars

-----------------------------------------------------------------------------
(* The Ingestor: process_events_for_pair (src/src/indexer/pangea.rs) *)

\* TradingPairConfig: the symbols a pair may be configured with, its start_block.
PairSymbols == {"AAPL", "BTC-USDC"}

StartBlock == 1

\* Duration::from_secs(60), the cap of retry_delay (line 229).
MaxRetryDelay == 60

\* The positions inside listen_for_new_deltas: the top of the loop, awaiting
\* the stream, reading the stream, sleeping.
ListenPcs == {"listen", "connecting", "live_stream", "sleeping"}

\* The record the upstream holds for a block: a trade whose price and amount
\* depend on the block.
RecordAt(b) ==
    IF b % 2 = 1 THEN OrderEvent(b, Some("Trade"), Some(100), Some(1))
    ELSE OrderEvent(b, Some("Trade"), Some(110), Some(2))

\* CandleStore::get_candles_in_time_range (candles.rs:154-177).
get_candles_in_time_range(store, symbol, interval, from, to) ==
    IF HasSeries(store, symbol, interval)
    THEN SelectSeq(store[symbol][interval],
                   LAMBDA c : c.timestamp >= from /\ c.timestamp <= to)
    ELSE <<>>

\* The task is spawned with its config and its store (lines 30-39).  The chain
\* head is at or past the start block.
InitIngest ==
    /\ candles = [s \in {} |-> <<>>]
    /\ history = <<>>
    /\ probe = [op |-> "idle"]
    /\ event = <<>>
    /\ sup = [pc |-> "none"]
    /\ lock = [writer |-> "none"]
    /\ \E symbol \in PairSymbols :
          ing = [pc |-> "start", step |-> "spawn", symbol |-> symbol,
                 cursor |-> StartBlock, target |-> 0, from_block |-> 0,
                 to_block |-> 0, retry_delay |-> 0]
    /\ \E head \in StartBlock..MaxHead :
          env = [delivered |-> 0, head |-> head, tick_due |-> FALSE, ticks |-> 0,
                 covered |-> {}, last_folded |-> StartBlock, anchor |-> StartBlock]

\* handle_order_event on a delivered record (lines 146 and 213); pangea.rs
\* passes the symbol as a third argument, the handler of
\* order_event_handler.rs takes two and folds under "AAPL".
Deliver(e) ==
    /\ env.delivered < MaxRecords
    /\ LET r == handle_order_event([store |-> candles, calls |-> history], e)
       IN  /\ candles' = r.store
           /\ history' = r.calls
    /\ event' = e

\* Line 58: create_pangea_client; an error ends the task.
CreateClient ==
    /\ ing.pc = "start"
    /\ \/ ing' = [ing EXCEPT !.pc = "hist_begin", !.step = "client"]
       \/ ing' = [ing EXCEPT !.pc = "exited", !.step = "client_error"]
    /\ UNCHANGED <<candles, history, probe, event, env, sup, lock>>

\* Lines 113-121: last_processed_block = contract_start_block, then the latest
\* block; an error (ev, get_latest_block) ends the task.
HistLatest ==
    /\ ing.pc = "hist_begin"
    /\ \/ ing' = [ing EXCEPT !.pc = "hist_loop", !.step = "latest",
                             !.target = env.head]
       \/ ing' = [ing EXCEPT !.pc = "exited", !.step = "latest_error"]
    /\ UNCHANGED <<candles, history, probe, event, env, sup, lock>>

\* Line 124 without the min.
batch_to_block_unclamped(last_processed_block, target_latest_block) ==
    last_processed_block + BatchSize

\* Line 124: the last block of the next batch.
batch_to_block(last_processed_block, target_latest_block) ==
    Min(last_processed_block + BatchSize, target_latest_block)

\* Lines 123-137: the loop test and the batch request; a failed request panics
\* (expect).
HistRequest ==
    /\ ing.pc = "hist_loop"
    /\ ing.cursor < ing.target
    /\ \/ ing' = [ing EXCEPT !.pc = "hist_stream", !.step = "batch_request",
                             !.from_block = ing.cursor,
                             !.to_block = batch_to_block(ing.cursor, ing.target)]
       \/ ing' = [ing EXCEPT !.pc = "panicked", !.step = "batch_request_error"]
    /\ UNCHANGED <<candles, history, probe, event, env, sup, lock>>

\* Lines 141-147: a record of the batch is decoded and handled.
HistRecord ==
    \E b \in ing.from_block..ing.to_block :
        /\ ing.pc = "hist_stream"
        /\ Deliver(RecordAt(b))
        /\ ing' = [ing EXCEPT !.step = "batch_record"]
        /\ env' = [env EXCEPT !.delivered = env.delivered + 1,
                              !.last_folded = b]
        /\ UNCHANGED <<probe, sup, lock>>

\* Lines 144-145: a record that does not decode ends the task (?).
HistDecodeError ==
    /\ ing.pc = "hist_stream"
    /\ ing' = [ing EXCEPT !.pc = "exited", !.step = "batch_decode_error"]
    /\ UNCHANGED <<candles, history, probe, event, env, sup, lock>>

\* Lines 148-156: the stream yields an error: break, then line 155.
HistStreamError ==
    /\ ing.pc = "hist_stream"
    /\ ing' = [ing EXCEPT !.pc = "hist_loop", !.step = "batch_error",
                          !.cursor = ing.to_block]
    /\ UNCHANGED <<candles, history, probe, event, env, sup, lock>>

\* Lines 141, 155: the stream ends, the batch is complete.
HistStreamEnd ==
    /\ ing.pc = "hist_stream"
    /\ ing' = [ing EXCEPT !.pc = "hist_loop", !.step = "batch_end",
                          !.cursor = ing.to_block]
    /\ env' = [env EXCEPT !.covered = env.covered \cup (ing.from_block..ing.to_block),
                          !.anchor = ing.to_block]
    /\ UNCHANGED <<candles, history, probe, event, sup, lock>>

\* Lines 158, 62-84, 169-171: the backfill returns, listen_for_new_deltas
\* starts; the first tick of a tokio interval is due at once.
HistDone ==
    /\ ing.pc = "hist_loop"
    /\ ~(ing.cursor < ing.target)
    /\ ing' = [ing EXCEPT !.pc = "listen", !.step = "listen", !.retry_delay = 1]
    /\ env' = [env EXCEPT !.tick_due = TRUE]
    /\ UNCHANGED <<candles, history, probe, event, sup, lock>>

\* Lines 175-185: the tick wins the select; the other branch's future, with its
\* request, stream or sleep, is dropped.  i64::saturating_sub does not stop at 0.
\* An error (ev, get_latest_block) ends the task.
Refresh ==
    /\ ing.pc \in ListenPcs
    /\ env.tick_due
    /\ \/ ing' = [ing EXCEPT !.pc = "listen", !.step = "refresh",
                             !.cursor = env.head - BufferBlocks]
       \/ ing' = [ing EXCEPT !.pc = "exited", !.step = "refresh_error"]
    /\ env' = [env EXCEPT !.tick_due = FALSE]
    /\ UNCHANGED <<candles, history, probe, event, sup, lock>>

\* Lines 186-202: the subscription request is built and awaited.  select! polls
\* its branches in no fixed order, so this happens also with a tick due.
Subscribe ==
    /\ ing.pc = "listen"
    /\ ing' = [ing EXCEPT !.pc = "connecting", !.step = "subscribe",
                          !.from_block = ing.cursor + 1]
    /\ UNCHANGED <<candles, history, probe, event, env, sup, lock>>

\* Line 204: the stream is established.
ConnectOk ==
    /\ ing.pc = "connecting"
    /\ ~env.tick_due
    /\ ing' = [ing EXCEPT !.pc = "live_stream", !.step = "connected"]
    /\ UNCHANGED <<candles, history, probe, event, env, sup, lock>>

\* Lines 223-225: the request fails.
ConnectError ==
    /\ ing.pc = "connecting"
    /\ ~env.tick_due
    /\ ing' = [ing EXCEPT !.pc = "sleeping", !.step = "connect_error"]
    /\ UNCHANGED <<candles, history, probe, event, env, sup, lock>>

\* Lines 207-215: a record of the live stream is decoded and handled, and the
\* cursor set to its block.  The upstream delivers records of blocks from
\* from_block on that the chain has; nothing fixes their order.
LiveRecord ==
    \E b \in ing.from_block..env.head :
        /\ ing.pc = "live_stream"
        /\ ~env.tick_due
        /\ Deliver(RecordAt(b))
        /\ ing' = [ing EXCEPT !.step = "live_record", !.cursor = b]
        /\ env' = [env EXCEPT !.delivered = env.delivered + 1,
                              !.last_folded = b, !.anchor = b,
                              !.covered = env.covered \cup (ing.from_block..b)]
        /\ UNCHANGED <<probe, sup, lock>>

\* Lines 210-211, 232-234: a record that does not decode ends the async block
\* with an error, which is logged; the loop goes on without sleeping.
LiveDecodeError ==
    /\ ing.pc = "live_stream"
    /\ ~env.tick_due
    /\ ing' = [ing EXCEPT !.pc = "listen", !.step = "live_decode_error"]
    /\ UNCHANGED <<candles, history, probe, event, env, sup, lock>>

\* Lines 207, 216-219: the stream ends or yields an error.
LiveStreamEnd ==
    /\ ing.pc = "live_stream"
    /\ ~env.tick_due
    /\ \/ ing' = [ing EXCEPT !.pc = "sleeping", !.step = "live_end"]
       \/ ing' = [ing EXCEPT !.pc = "sleeping", !.step = "live_error"]
    /\ UNCHANGED <<candles, history, probe, event, env, sup, lock>>

\* Line 229.
next_retry_delay_unbounded(retry_delay) == retry_delay * 2

next_retry_delay(retry_delay) == Min(retry_delay * 2, MaxRetryDelay)

\* Lines 228-230: the sleep is over, retry_delay doubles up to its cap.
SleepDone ==
    /\ ing.pc = "sleeping"
    /\ ~env.tick_due
    /\ ing' = [ing EXCEPT !.pc = "listen", !.step = "slept",
                          !.retry_delay = next_retry_delay(ing.retry_delay)]
    /\ UNCHANGED <<candles, history, probe, event, env, sup, lock>>

\* Line 170: ten minutes after the last tick the timer is due again.
TimerElapses ==
    /\ ing.pc \in ListenPcs
    /\ ~env.tick_due
    /\ env.ticks < MaxTicks
    /\ env' = [env EXCEPT !.tick_due = TRUE, !.ticks = env.ticks + 1]
    /\ UNCHANGED <<candles, history, probe, event, ing, sup, lock>>

\* The chain produces a block.
ChainGrows ==
    /\ ing.pc \notin {"exited", "panicked"}
    /\ env.head < MaxHead
    /\ env' = [env EXCEPT !.head = env.head + 1]
    /\ UNCHANGED <<candles, history, probe, event, ing, sup, lock>>

NextIngest ==
    \/ CreateClient \/ HistLatest \/ HistRequest \/ HistRecord
    \/ HistDecodeError \/ HistStreamError \/ HistStreamEnd \/ HistDone
    \/ Refresh \/ Subscribe \/ ConnectOk \/ ConnectError \/ LiveRecord
    \/ LiveDecodeError \/ LiveStreamEnd \/ SleepDone \/ TimerElapses
    \/ ChainGrows

SpecIngest == InitIngest /\ [][NextIngest]_vars

\* The runtime keeps polling the task: a sleep that is over, a request to build
\* and a due tick are taken.  What the upstream and the clock do is not assumed.
SpecIngestFair ==
    SpecIngest /\ WF_vars(SleepDone) /\ WF_vars(Subscribe) /\ WF_vars(Refresh)

\* fetch_historical_data alone, from a chain whose head lies below, at or above
\* the start block of the pair, far enough for several batches.
InitBackfill ==
    /\ candles = [s \in {} |-> <<>>]
    /\ history = <<>>
    /\ probe = [op |-> "idle"]
    /\ event = <<>>
    /\ sup = [pc |-> "none"]
    /\ lock = [writer |-> "none"]
    /\ \E symbol \in PairSymbols :
          ing = [pc |-> "start", step |-> "spawn", symbol |-> symbol,
                 cursor |-> StartBlock, target |-> 0, from_block |-> 0,
                 to_block |-> 0, retry_delay |-> 0]
    /\ \E head \in 0..MaxLatest :
          env = [delivered |-> 0, head |-> head, tick_due |-> FALSE, ticks |-> 0,
                 covered |-> {}, last_folded |-> StartBlock, anchor |-> StartBlock]

NextBackfill ==
    \/ CreateClient \/ HistLatest \/ HistRequest \/ HistRecord
    \/ HistDecodeError \/ HistStreamError \/ HistStreamEnd \/ HistDone
    \/ ChainGrows

SpecBackfill == InitBackfill /\ [][NextBackfill]_vars

\* The runtime keeps polling the task, the requests are answered and every
\* batch stream ends.
SpecBackfillFair ==
    /\ SpecBackfill
    /\ WF_vars(HistLatest) /\ WF_vars(HistRequest)
    /\ WF_vars(HistStreamEnd) /\ WF_vars(HistDone)

-----------------------------------------------------------------------------
(* The Supervisor: main (src/src/main.rs) and initialize_pangea_indexer *)

\* A task that has returned an error or panicked.
Ended == {"exited", "panicked"}

\* The positions a task of process_events_for_pair can move to from a position:
\* the control flow of the Ingestor actions above, without their data.
TaskSteps(pc) ==
    CASE pc = "start" -> {"hist_begin", "exited"}
      [] pc = "hist_begin" -> {"hist_loop", "exited"}
      [] pc = "hist_loop" -> {"hist_stream", "panicked", "listen"}
      [] pc = "hist_stream" -> {"hist_loop", "exited"}
      [] pc = "listen" -> {"connecting", "exited"}
      [] pc = "connecting" -> {"live_stream", "sleeping", "listen", "exited"}
      [] pc = "live_stream" -> {"sleeping", "listen", "exited"}
      [] pc = "sleeping" -> {"listen", "exited"}
      [] OTHER -> {}

\* The Ingestor of SpecIngest moves as TaskSteps says.
IngestFollowsTaskSteps ==
    [][ing'.pc = ing.pc \/ ing'.pc \in TaskSteps(ing.pc)]_vars

\* futures::future::join_all(tasks) completes when every JoinHandle has
\* completed; try_join_all would complete at the first task that failed.
try_join_all(tasks) == \E s \in DOMAIN tasks : tasks[s] \in Ended

join_all(tasks) == \A s \in DOMAIN tasks : tasks[s] \in Ended

\* main has launched the Rocket server and the indexer (lines 27-34); the
\* Supervisor is about to spawn its tasks.
InitSupervisor ==
    /\ candles = [s \in {} |-> <<>>]
    /\ history = <<>>
    /\ probe = [op |-> "idle"]
    /\ event = <<>>
    /\ ing = [pc |-> "none"]
    /\ env = [delivered |-> 0]
    /\ lock = [writer |-> "none"]
    /\ sup = [main |-> "await_ctrl_c", shutdown |-> FALSE, rocket |-> "serving",
              pc |-> "spawning", how |-> "none",
              tasks |-> [s \in PairSymbols |-> "unspawned"]]

\* pangea.rs:28-40: one tokio::spawn per configured pair.
SpawnTasks ==
    /\ sup.pc = "spawning"
    /\ sup' = [sup EXCEPT !.pc = "select", !.tasks = [s \in PairSymbols |-> "start"]]
    /\ UNCHANGED <<candles, history, probe, event, ing, env, lock>>

\* A spawned task runs on the runtime, whatever the Supervisor does; it holds
\* no shutdown receiver (pangea.rs:54-57).
TaskStep ==
    \E s \in PairSymbols : \E pc \in TaskSteps(sup.tasks[s]) :
        /\ sup.main # "done"
        /\ sup' = [sup EXCEPT !.tasks[s] = pc]
        /\ UNCHANGED <<candles, history, probe, event, ing, env, lock>>

\* main.rs:37-41: Ctrl+C arrives, main drops the sender.
CtrlC ==
    /\ sup.main = "await_ctrl_c"
    /\ sup' = [sup EXCEPT !.main = "await_rocket", !.shutdown = TRUE]
    /\ UNCHANGED <<candles, history, probe, event, ing, env, lock>>

\* main.rs:64-73: the Rocket task's recv returns once the sender is dropped.
RocketStops ==
    /\ sup.rocket = "serving"
    /\ sup.shutdown
    /\ sup' = [sup EXCEPT !.rocket = "stopped"]
    /\ UNCHANGED <<candles, history, probe, event, ing, env, lock>>

\* pangea.rs:42-45: shutdown.recv() returns (Closed); join_all and its
\* JoinHandles are dropped, which detaches the tasks.
SelectShutdown ==
    /\ sup.pc = "select"
    /\ sup.shutdown
    /\ sup' = [sup EXCEPT !.pc = "returned", !.how = "shutdown"]
    /\ UNCHANGED <<candles, history, probe, event, ing, env, lock>>

\* pangea.rs:46-48.
SelectJoined ==
    /\ sup.pc = "select"
    /\ join_all(sup.tasks)
    /\ sup' = [sup EXCEPT !.pc = "returned", !.how = "joined"]
    /\ UNCHANGED <<candles, history, probe, event, ing, env, lock>>

\* main.rs:44-46.
MainJoinsRocket ==
    /\ sup.main = "await_rocket"
    /\ sup.rocket = "stopped"
    /\ sup' = [sup EXCEPT !.main = "await_indexer"]
    /\ UNCHANGED <<candles, history, probe, event, ing, env, lock>>

\* main.rs:47-52: main returns; the runtime is dropped with it and drops the
\* tasks that are still running.
MainReturns ==
    /\ sup.main = "await_indexer"
    /\ sup.pc = "returned"
    /\ sup' = [sup EXCEPT !.main = "done",
                          !.tasks = [s \in PairSymbols |->
                                        IF sup.tasks[s] \in Ended THEN sup.tasks[s]
                                        ELSE "dropped"]]
    /\ UNCHANGED <<candles, history, probe, event, ing, env, lock>>

NextSupervisor ==
    \/ SpawnTasks \/ TaskStep \/ CtrlC \/ RocketStops \/ SelectShutdown
    \/ SelectJoined \/ MainJoinsRocket \/ MainReturns

SpecSupervisor == InitSupervisor /\ [][NextSupervisor]_vars

-----------------------------------------------------------------------------
(* add_price step by step, next to a reader (src/src/storage/candles.rs) *)

\* The series the steps below work on, and the ranges the reader asks for.
FoldSymbol == "AAPL"

FoldInterval == 60

ReadRanges == {<<0, BaseTime + MaxStep * FoldInterval>>, <<BaseTime, BaseTime + FoldInterval>>}

\* std::sync::RwLock: read() is granted while no writer holds the lock, write()
\* while nobody holds it.
can_read_unlocked(l) == TRUE

can_read(l) == l.writer = "none"

can_write(l) == l.writer = "none" /\ l.readers = 0

\* The series of the call in progress.
candle_list == Series(candles, FoldSymbol, FoldInterval)

\* The store is new; nobody holds the lock.  lock.pre is a history variable:
\* the store as it was when the last call of add_price took the lock.
InitConcurrent ==
    /\ candles = [s \in {} |-> <<>>]
    /\ history = <<>>
    /\ event = <<>>
    /\ ing = [pc |-> "none"]
    /\ env = [delivered |-> 0]
    /\ sup = [pc |-> "none"]
    /\ probe = [op |-> "idle"]
    /\ lock = [writer |-> "none", readers |-> 0, call |-> None,
               missing_time |-> 0, last_close |-> 0, pre |-> candles]

\* Line 40: self.candles.write().
WriteLock ==
    \E trade \in Trades, event_time \in EventTimes(FoldInterval) :
        /\ Len(history) < MaxFolds
        /\ can_write(lock)
        /\ lock' = [lock EXCEPT
                      !.writer = "entry",
                      !.call = Some([symbol |-> FoldSymbol, interval |-> FoldInterval,
                                     price |-> trade[1], volume |-> trade[2],
                                     event_time |-> event_time]),
                      !.pre = candles]
        /\ UNCHANGED <<candles, history, probe, event, ing, env, sup>>

\* Lines 43-44: the two entry().or_default().
WriteEntry ==
    /\ lock.writer = "entry"
    /\ candles' = Put(candles, FoldSymbol, FoldInterval, candle_list)
    /\ lock' = [lock EXCEPT !.writer = "check"]
    /\ UNCHANGED <<history, probe, event, ing, env, sup>>

\* Lines 47-69: the period start; the last candle is updated and the call
\* returns, or the gap-fill loop is set up, or the list is empty.
WriteCheck ==
    /\ lock.writer = "check"
    /\ LET c == lock.call[1]
           period_start == period_start_of(c.event_time, c.interval)
       IN  IF candle_list # <<>> /\ Last(candle_list).timestamp = period_start
           THEN /\ candles' = Put(candles, c.symbol, c.interval,
                                  [candle_list EXCEPT ![Len(candle_list)] =
                                      update_candle(Last(candle_list), c.price, c.volume)])
                /\ lock' = [lock EXCEPT !.writer = "return"]
           ELSE IF candle_list # <<>>
           THEN /\ lock' = [lock EXCEPT
                              !.writer = "fill",
                              !.missing_time = Last(candle_list).timestamp + c.interval,
                              !.last_close = Last(candle_list).close]
                /\ UNCHANGED candles
           ELSE /\ lock' = [lock EXCEPT !.writer = "push"]
                /\ UNCHANGED candles
    /\ UNCHANGED <<history, probe, event, ing, env, sup>>

\* Lines 72-83: one turn of the gap-fill loop, or its end.
WriteFill ==
    /\ lock.writer = "fill"
    /\ LET c == lock.call[1]
       IN  IF lock.missing_time < period_start_of(c.event_time, c.interval)
           THEN /\ candles' = Put(candles, c.symbol, c.interval,
                                  Append(candle_list,
                                         Candle(lock.last_close, lock.last_close,
                                                lock.last_close, lock.last_close, 0,
                                                lock.missing_time)))
                /\ lock' = [lock EXCEPT !.missing_time = lock.missing_time + c.interval]
           ELSE /\ lock' = [lock EXCEPT !.writer = "push"]
                /\ UNCHANGED candles
    /\ UNCHANGED <<history, probe, event, ing, env, sup>>

\* Lines 87-95: the new candle.
WritePush ==
    /\ lock.writer = "push"
    /\ LET c == lock.call[1]
       IN  candles' = Put(candles, c.symbol, c.interval,
                          Append(candle_list,
                                 Candle(c.price, c.price, c.price, c.price, c.volume,
                                        period_start_of(c.event_time, c.interval))))
    /\ lock' = [lock EXCEPT !.writer = "limit"]
    /\ UNCHANGED <<history, probe, event, ing, env, sup>>

\* Lines 98-101: the drain.
WriteLimit ==
    /\ lock.writer = "limit"
    /\ candles' = Put(candles, FoldSymbol, FoldInterval, drain(candle_list))
    /\ lock' = [lock EXCEPT !.writer = "return"]
    /\ UNCHANGED <<history, probe, event, ing, env, sup>>

\* Lines 60 and 102: the call returns and its guard is dropped.
WriteReturn ==
    /\ lock.writer = "return"
    /\ LET c == lock.call[1]
       IN  history' = Append(history, call_record(c.symbol, c.interval, c.price,
                                                  c.volume, c.event_time))
    /\ lock' = [lock EXCEPT !.writer = "none"]
    /\ UNCHANGED <<candles, probe, event, ing, env, sup>>

\* Line 161: self.candles.read() in get_candles_in_time_range.
ReadLock ==
    \E range \in ReadRanges :
        /\ probe.op # "reading"
        /\ can_read(lock)
        /\ probe' = [op |-> "reading", from |-> range[1], to |-> range[2]]
        /\ lock' = [lock EXCEPT !.readers = lock.readers + 1]
        /\ UNCHANGED <<candles, history, event, ing, env, sup>>

\* Lines 162-177: the result is collected and the guard dropped.
ReadCollect ==
    /\ probe.op = "reading"
    /\ probe' = [op |-> "done", from |-> probe.from, to |-> probe.to,
                 result |-> get_candles_in_time_range(candles, FoldSymbol, FoldInterval,
                                                      probe.from, probe.to)]
    /\ lock' = [lock EXCEPT !.readers = lock.readers - 1]
    /\ UNCHANGED <<candles, history, event, ing, env, sup>>

NextConcurrent ==
    \/ WriteLock \/ WriteEntry \/ WriteCheck \/ WriteFill \/ WritePush
    \/ WriteLimit \/ WriteReturn \/ ReadLock \/ ReadCollect

SpecConcurrent == InitConcurrent /\ [][NextConcurrent]_vars

-----------------------------------------------------------------------------
(* The queries of CandleStore (src/src/storage/candles.rs:143-195) *)

\* Iterator::rev and Iterator::take.
RECURSIVE Reverse(_)
Reverse(s) == IF s = <<>> THEN <<>> ELSE Append(Reverse(Tail(s)), Head(s))

Take(s, n) == SubSeq(s, 1, Min(n, Len(s)))

\* Lines 145-146, 162-164: candles.get(symbol), then get(&interval), on the map
\* behind the read guard: the store as the lookup leaves it, and what it found.
\* With entry().or_default(), as in add_price, the lookup would create the series.
lookup_or_default(store, symbol, interval) ==
    [store |-> Put(store, symbol, interval, Series(store, symbol, interval)),
     found |-> Some(Series(store, symbol, interval))]

lookup(store, symbol, interval) ==
    [store |-> store,
     found |-> IF HasSeries(store, symbol, interval)
               THEN Some(store[symbol][interval]) ELSE None]

\* Lines 143-151 with take before rev.
get_candles_take_rev(store, symbol, interval, count) ==
    IF lookup(store, symbol, interval).found # None
    THEN Reverse(Take(lookup(store, symbol, interval).found[1], count))
    ELSE <<>>

\* Lines 143-151.
get_candles(store, symbol, interval, count) ==
    IF lookup(store, symbol, interval).found # None
    THEN Take(Reverse(lookup(store, symbol, interval).found[1]), count)
    ELSE <<>>

\* Lines 180-195.
AllTimestamps(store) ==
    UNION {UNION {{store[s][i][k].timestamp : k \in DOMAIN store[s][i]} :
                      i \in DOMAIN store[s]} : s \in DOMAIN store}

\* Lines 180-195 reading the series of one interval only.
get_min_max_of_minute(store) ==
    LET ts == UNION {UNION {{store[s][i][k].timestamp : k \in DOMAIN store[s][i]} :
                                i \in (DOMAIN store[s] \cap {60})} : s \in DOMAIN store}
    IN  IF ts = {} THEN None
        ELSE Some(<<CHOOSE t \in ts : \A u \in ts : t <= u,
                    CHOOSE t \in ts : \A u \in ts : t >= u>>)

get_min_max_timestamps(store) ==
    IF DOMAIN store = {} THEN None
    ELSE IF AllTimestamps(store) = {} THEN None
    ELSE Some(<<CHOOSE t \in AllTimestamps(store) : \A u \in AllTimestamps(store) : t <= u,
                CHOOSE t \in AllTimestamps(store) : \A u \in AllTimestamps(store) : t >= u>>)

\* What the queries are asked: a symbol and an interval the store has or has
\* not, counts around the length of a series, ranges around its buckets.
QuerySymbols == {"AAPL", "BTC-USDC"}

QueryIntervals == {60, 180}

QueryRanges ==
    {<<0, BaseTime + FoldInterval>>, <<BaseTime + FoldInterval, BaseTime + 2 * FoldInterval>>,
     <<BaseTime + FoldInterval, BaseTime>>}

\* add_price on the series the queries look at.
QueryAddPrice ==
    \E trade \in Trades, event_time \in EventTimes(FoldInterval) :
        /\ Len(history) < MaxFolds
        /\ add_price(FoldSymbol, FoldInterval, trade[1], trade[2], event_time)

GetCandles ==
    \E symbol \in QuerySymbols, interval \in QueryIntervals, count \in 0..MaxCount :
        /\ candles' = lookup(candles, symbol, interval).store
        /\ probe' = [op |-> "get_candles", symbol |-> symbol, interval |-> interval,
                     count |-> count,
                     result |-> get_candles(candles, symbol, interval, count)]
        /\ UNCHANGED <<history, event, ing, env, sup, lock>>

GetCandlesInTimeRange ==
    \E symbol \in QuerySymbols, interval \in QueryIntervals, range \in QueryRanges :
        /\ candles' = lookup(candles, symbol, interval).store
        /\ probe' = [op |-> "get_candles_in_time_range", symbol |-> symbol,
                     interval |-> interval, from |-> range[1], to |-> range[2],
                     result |-> get_candles_in_time_range(candles, symbol, interval,
                                                          range[1], range[2])]
        /\ UNCHANGED <<history, event, ing, env, sup, lock>>

GetMinMaxTimestamps ==
    /\ probe' = [op |-> "get_min_max_timestamps",
                 result |-> get_min_max_timestamps(candles)]
    /\ UNCHANGED <<candles, history, event, ing, env, sup, lock>>

NextQuery == QueryAddPrice \/ GetCandles \/ GetCandlesInTimeRange \/ GetMinMaxTimestamps

SpecQuery == Init /\ [][NextQuery]_vars

\* The handler filling the nine series of the store next to the query over all
\* of them.
NextStore == HandleOrderEvent \/ GetMinMaxTimestamps

SpecStore == Init /\ [][NextStore]_vars

-----------------------------------------------------------------------------
(* The history endpoint: get_history (src/src/web/routes/history.rs) *)

\* The largest countback a request carries.
MaxCountback == 2

\* The match of lines 36-56: the interval of a resolution string, None for the
\* arm that answers with an error.
resolve_interval(resolution) ==
    CASE resolution = "1" -> Some(60)
      [] resolution = "5" -> Some(300)
      [] resolution = "15" -> Some(900)
      [] resolution = "30" -> Some(1800)
      [] resolution = "60" -> Some(3600)
      [] resolution = "1D" -> Some(86400)
      [] resolution = "1W" -> Some(604800)
      [] OTHER -> None

\* TradingEngine.stores: one store per configured pair; get_store.
TradingEngine == [symbol \in Symbols |-> candles]

get_store(stores, symbol) ==
    IF symbol \in DOMAIN stores THEN Some(stores[symbol]) ELSE None

\* Lines 60-61: the decimals of a pair without a configured value, the divisor.
Decimals == 9

Divisor == 10 ^ Decimals

\* The time Utc::now() gives, past the last block.
Now == BlockTime(MaxBlock + 1)

\* AdvancedChartResponse: one entry per candle in each array, each value
\* as the pair (value, divisor) of the division of lines 87-91.
AdvancedChartResponse(s, cs) ==
    [s |-> s,
     t |-> [k \in DOMAIN cs |-> cs[k].timestamp],
     o |-> [k \in DOMAIN cs |-> <<cs[k].open, Divisor>>],
     h |-> [k \in DOMAIN cs |-> <<cs[k].high, Divisor>>],
     l |-> [k \in DOMAIN cs |-> <<cs[k].low, Divisor>>],
     c |-> [k \in DOMAIN cs |-> <<cs[k].close, Divisor>>],
     v |-> [k \in DOMAIN cs |-> <<cs[k].volume, Divisor>>]]

\* Lines 65-69.
trim_countback(cs, countback) ==
    IF countback # None
    THEN IF Len(cs) > countback[1]
         THEN SubSeq(cs, Len(cs) - countback[1] + 1, Len(cs))
         ELSE cs
    ELSE cs

\* Lines 24-113.
get_history(stores, symbol, resolution, from, to, countback) ==
    LET res == IF resolution = None THEN "60" ELSE resolution[1]
        f == IF from = None THEN 0 ELSE from[1]
        u == IF to = None THEN Now ELSE to[1]
        interval == resolve_interval(res)
    IN  IF interval = None THEN AdvancedChartResponse("error", <<>>)
        ELSE IF get_store(stores, symbol) # None
             THEN LET store == get_store(stores, symbol)[1]
                      cs == trim_countback(
                                get_candles_in_time_range(store, symbol, interval[1], f, u),
                                countback)
                  IN  IF cs = <<>> THEN AdvancedChartResponse("no_data", <<>>)
                      ELSE AdvancedChartResponse("ok", cs)
             ELSE AdvancedChartResponse("error", <<>>)

\* What the endpoint is asked: resolutions the interface names and one it does
\* not, with and without range and countback.
Resolutions ==
    {None, Some("1"), Some("3"), Some("5"), Some("15"), Some("30"), Some("60"),
     Some("1D"), Some("D"), Some("1W"), Some("W"), Some("1M"), Some("M"), Some("2")}

HistoryRanges ==
    {<<None, None>>, <<Some(BlockTime(2)), Some(BlockTime(MaxBlock))>>}

Countbacks == {None} \cup {Some(n) : n \in 0..MaxCountback}

\* Every resolution over the whole time for the configured pair, the minute
\* resolutions with every range and countback, and a pair that is not configured.
HistoryRequests ==
    {<<FoldSymbol, resolution, <<None, None>>, None>> : resolution \in Resolutions}
    \cup {<<FoldSymbol, resolution, range, countback>> :
             resolution \in {Some("1"), Some("3")}, range \in HistoryRanges,
             countback \in Countbacks}
    \cup {<<"BTC-USDC", resolution, <<None, None>>, None>> :
             resolution \in {Some("1"), Some("2")}}

GetHistory ==
    \E request \in HistoryRequests :
        LET symbol == request[1]
            resolution == request[2]
            range == request[3]
            countback == request[4]
        IN  /\ probe' = [op |-> "get_history", symbol |-> symbol,
                         resolution |-> resolution, from |-> range[1], to |-> range[2],
                         countback |-> countback,
                         response |-> get_history(TradingEngine, symbol, resolution,
                                                  range[1], range[2], countback)]
            /\ UNCHANGED <<candles, history, event, ing, env, sup, lock>>

NextHistory == HandleOrderEvent \/ GetHistory

SpecHistory == Init /\ [][NextHistory]_vars

-----------------------------------------------------------------------------
(* Notions the properties below are stated in *)

\* The (symbol, interval) keys of the series the store holds.
SeriesKeys ==
    UNION {{<<s, i>> : i \in DOMAIN candles[s]} : s \in DOMAIN candles}

IsFlat(c, price, volume, t) ==
    /\ c.open = price /\ c.high = price /\ c.low = price /\ c.close = price
    /\ c.volume = volume /\ c.timestamp = t

\* The calls of the history that went to the series (symbol, interval).
RECURSIVE CallsOf(_, _, _)
CallsOf(h, symbol, interval) ==
    IF h = <<>> THEN <<>>
    ELSE LET rest == CallsOf(SubSeq(h, 1, Len(h) - 1), symbol, interval)
             c == h[Len(h)]
         IN  IF c.symbol = symbol /\ c.interval = interval
             THEN Append(rest, c) ELSE rest

MaxPrice(h) == CHOOSE p \in {h[k].price : k \in 1..Len(h)} :
                   \A k \in 1..Len(h) : h[k].price <= p

MinPrice(h) == CHOOSE p \in {h[k].price : k \in 1..Len(h)} :
                   \A k \in 1..Len(h) : h[k].price >= p

RECURSIVE SumVolume(_)
SumVolume(h) ==
    IF h = <<>> THEN 0 ELSE h[Len(h)].volume + SumVolume(SubSeq(h, 1, Len(h) - 1))

\* In a step of add_price: the call, and the series it went to, before and after.
ThisCall == history'[Len(history')]

Before == Series(candles, ThisCall.symbol, ThisCall.interval)

After == Series(candles', ThisCall.symbol, ThisCall.interval)

IsCall == history' # history

\* The call's period start lies after the bucket of the series' last candle.
IsLater == IsCall /\ Before # <<>> /\ ThisCall.period_start > Last(Before).timestamp

\* The call's period start lies before the bucket of the series' last candle.
IsEarlier == IsCall /\ Before # <<>> /\ ThisCall.period_start < Last(Before).timestamp

\* Whole intervals from the last candle's bucket to the call's.
Distance == (ThisCall.period_start - Last(Before).timestamp) \div ThisCall.interval

\* The positions of After that hold the gap-fill candles of a later call: those
\* before the new candle with nothing at or before the old last bucket after them.
Inserted ==
    {k \in 1..(Len(After) - 1) :
        \A j \in k..(Len(After) - 1) : After[j].timestamp > Last(Before).timestamp}

\* The calls of the history came in the order of their buckets.
InOrder ==
    \A k \in 1..(Len(history) - 1) :
        history[k].period_start <= history[k + 1].period_start

-----------------------------------------------------------------------------
(* Properties of the candle store *)

\* C1: every candle of every series has
\* low <= min(open, close) <= max(open, close) <= high.
OhlcOrdered ==
    \A key \in SeriesKeys :
        LET s == candles[key[1]][key[2]] IN
        \A k \in 1..Len(s) :
            /\ s[k].low <= Min(s[k].open, s[k].close)
            /\ Min(s[k].open, s[k].close) <= Max(s[k].open, s[k].close)
            /\ Max(s[k].open, s[k].close) <= s[k].high

\* A candle that three trades went into, the second above and the third below
\* the first.
OhlcSpread ==
    \E key \in SeriesKeys :
        LET s == candles[key[1]][key[2]] IN
        /\ Len(history) = 3
        /\ Len(s) = 1
        /\ s[1].low < s[1].open /\ s[1].open < s[1].high /\ s[1].close = s[1].low

\* C2: successive candles of a series are exactly one interval apart.
Continuity ==
    \A key \in SeriesKeys :
        LET s == candles[key[1]][key[2]] IN
        \A k \in 1..(Len(s) - 1) :
            s[k + 1].timestamp - s[k].timestamp = key[2]

\* C3: a call whose period start is earlier than the last candle's bucket leaves
\* the series as it was.
OutOfOrderRejected == [][IsEarlier => After = Before]_vars

\* C4: trades with one period start, folded into an empty series, give one
\* candle: open the first price, close the last, high the maximum, low the
\* minimum, volume the sum of the amounts.
SameBucketFold ==
    \A s \in Symbols, i \in Intervals :
        LET h == CallsOf(history, s, i) IN
        (/\ h # <<>>
         /\ \A k \in 1..Len(h) : h[k].period_start = h[1].period_start)
        => /\ HasSeries(candles, s, i)
           /\ candles[s][i] =
                <<Candle(h[1].price, MaxPrice(h), MinPrice(h), h[Len(h)].price,
                         SumVolume(h), h[1].period_start)>>

\* Three trades of three prices went into one bucket.
SameBucketThree ==
    \E s \in Symbols, i \in Intervals :
        LET h == CallsOf(history, s, i) IN
        /\ Len(h) = 3
        /\ \A k \in 1..3 : h[k].period_start = h[1].period_start
        /\ Cardinality({h[k].price : k \in 1..3}) = 3
        /\ h[1].price > h[3].price /\ h[2].price > h[1].price
        /\ Len(candles[s][i]) = 1

\* C5: after a later call, every gap-fill candle is flat at the close of the
\* candle before it with volume 0, and the new candle is flat at the price with
\* the amount as volume.
GapFillCarriesClose ==
    [][IsLater =>
        /\ IsFlat(Last(After), ThisCall.price, ThisCall.volume, ThisCall.period_start)
        /\ \A k \in Inserted :
              /\ IsFlat(After[k], Last(Before).close, 0, After[k].timestamp)
              /\ k > 1 => After[k].close = After[k - 1].close
                          /\ After[k].open = After[k - 1].close
                          /\ After[k].high = After[k - 1].close
                          /\ After[k].low = After[k - 1].close]_vars

\* A gap-fill candle follows a candle whose open and close differ.
GapAfterMovedCandle ==
    \E key \in SeriesKeys :
        LET s == candles[key[1]][key[2]] IN
        /\ Len(s) = 3
        /\ InOrder
        /\ s[1].open # s[1].close
        /\ IsFlat(s[2], s[1].close, 0, s[1].timestamp + key[2])
        /\ s[3].volume > 0

\* C6: without eviction, a later call inserts Distance - 1 gap-fill candles, at
\* the buckets one interval apart between the old last bucket and the call's,
\* and the series grows by Distance candles.
GapFillCount ==
    [][(IsLater /\ Len(Before) + Distance <= MAX_CANDLES) =>
        /\ Distance * ThisCall.interval =
               ThisCall.period_start - Last(Before).timestamp
        /\ Len(After) = Len(Before) + Distance
        /\ Cardinality(Inserted) = Distance - 1
        /\ \A j \in 1..(Distance - 1) :
              /\ After[Len(Before) + j].timestamp =
                     Last(Before).timestamp + j * ThisCall.interval
              /\ After[Len(Before) + j].volume = 0
        /\ After[Len(After)].timestamp = ThisCall.period_start]_vars

\* Two trades two buckets apart: one gap-fill candle between them, none evicted.
OneGapCandle ==
    \E key \in SeriesKeys :
        LET s == candles[key[1]][key[2]] IN
        /\ Len(history) = 2
        /\ history[2].period_start = history[1].period_start + 2 * key[2]
        /\ Len(s) = 3
        /\ s[2].volume = 0

\* C7: no series is longer than MAX_CANDLES.
BoundedLength ==
    \A key \in SeriesKeys : Len(candles[key[1]][key[2]]) <= MAX_CANDLES

\* A full series whose oldest candle was dropped: the first trade's bucket is
\* no longer in it.
FullAfterEviction ==
    \E key \in SeriesKeys :
        LET s == candles[key[1]][key[2]] IN
        /\ InOrder
        /\ Len(s) = MAX_CANDLES
        /\ s[1].timestamp > history[1].period_start

\* C8: when a call takes the series past MAX_CANDLES, the series afterwards is
\* the last MAX_CANDLES candles of what was appended, in their order: the old
\* candles kept are the newest ones, followed by the gap-fill candles and the
\* new candle.
EvictsOldest ==
    [][IsCall =>
        LET added == IF Before = <<>> \/ IsEarlier THEN 1
                     ELSE IF IsLater THEN Distance ELSE 0
            total == Len(Before) + added
        IN  total > MAX_CANDLES =>
              /\ Len(After) = MAX_CANDLES
              /\ Last(After).timestamp = ThisCall.period_start
              /\ \A k \in 1..MAX_CANDLES :
                    LET idx == total - MAX_CANDLES + k IN
                    /\ idx <= Len(Before) => After[k] = Before[idx]
                    /\ (idx > Len(Before) /\ IsLater) =>
                          After[k].timestamp =
                              Last(Before).timestamp
                                  + (idx - Len(Before)) * ThisCall.interval]_vars

\* Three trades in order, a gap before the third: the first trade's candle was
\* dropped, the second trade's candle is now the oldest.
KeepsNewestOldCandle ==
    \E key \in SeriesKeys :
        LET s == candles[key[1]][key[2]] IN
        /\ Len(history) = 3
        /\ history[1].period_start < history[2].period_start
        /\ history[2].period_start < history[3].period_start
        /\ Len(s) = MAX_CANDLES
        /\ s[1].timestamp = history[2].period_start
        /\ s[1].volume = history[2].volume
        /\ s[MAX_CANDLES].timestamp = history[3].period_start

\* C9: every candle's bucket start is its own period start.
Aligned ==
    \A key \in SeriesKeys :
        LET s == candles[key[1]][key[2]] IN
        \A k \in 1..Len(s) :
            get_period_start(s[k].timestamp, key[2]) = s[k].timestamp

\* A weekly series with a trade candle, a gap-fill candle and a trade candle.
WeeklyWithGap ==
    /\ HasSeries(candles, "AAPL", 604800)
    /\ LET s == candles["AAPL"][604800] IN
       /\ Len(s) = 3
       /\ s[1].volume > 0 /\ s[2].volume = 0 /\ s[3].volume > 0
       /\ s[1].timestamp < BaseTime

-----------------------------------------------------------------------------
(* Properties of get_period_start *)

\* C10: for the intervals 60, 180, 300, 900, 1800, 3600 and 2592000 and an event
\* time >= 0, the period start is floor(event_time / interval) * interval, so
\* it is at most the event time and less than one interval before it.
FloorAligned ==
    /\ get_period_start(1700000000, 60) = 1699999980
    /\ get_period_start(1700000000, 3600) = 1699999200
    /\ (/\ probe.op = "done"
        /\ probe.interval \in {60, 180, 300, 900, 1800, 3600, 2592000}
        /\ probe.event_time >= 0)
       => /\ probe.period_start = (probe.event_time \div probe.interval) * probe.interval
          /\ probe.period_start <= probe.event_time
          /\ probe.event_time < probe.period_start + probe.interval

\* The period start of an event one second before an hour boundary.
FloorBeforeBoundary ==
    /\ probe.op = "done"
    /\ probe.interval = 3600
    /\ probe.event_time = 1699923599
    /\ probe.period_start = 1699920000

\* C11: for the interval 86400 the period start is midnight UTC of the event's
\* day; for 604800 it is midnight UTC of the Monday at or before the event
\* (1970-01-05, second 345600, was a Monday), which is no multiple of 604800.
DayAndWeekAligned ==
    /\ get_period_start(1700000000, 86400) = 1699920000
    /\ (probe.op = "done" /\ probe.interval = 86400)
       => /\ probe.period_start % 86400 = 0
          /\ probe.period_start <= probe.event_time
          /\ probe.event_time - probe.period_start < 86400
    /\ (probe.op = "done" /\ probe.interval = 604800)
       => /\ (probe.period_start - 345600) % 604800 = 0
          /\ probe.period_start % 604800 # 0
          /\ probe.period_start <= probe.event_time
          /\ probe.event_time - probe.period_start < 604800

\* The last second of a Sunday belongs to the week of the Monday six days before.
SundayNight ==
    /\ probe.op = "done"
    /\ probe.interval = 604800
    /\ probe.event_time = 1699833599
    /\ probe.period_start = 1699228800

-----------------------------------------------------------------------------
(* Properties of handle_order_event *)

\* The calls a step added to the history.
NewCalls == SubSeq(history', Len(history) + 1, Len(history'))

\* The step handed a record to handle_order_event.
Handled == env'.delivered = env.delivered + 1

IsTrade(e) == e.event_type = Some("Trade") /\ e.price # None /\ e.amount # None

\* C12: handling a Trade record with price and amount makes one add_price call
\* for each of the nine intervals, with the record's price and amount and the
\* period start of its block_timestamp, and each call is folded: the series'
\* last candle is the call's bucket, closes at the price and has gained the
\* amount.
TradeFoldedNineTimes ==
    [][(Handled /\ IsTrade(event')) =>
        /\ Len(NewCalls) = 9
        /\ \A i \in Intervals :
              /\ Cardinality({k \in 1..Len(NewCalls) : NewCalls[k].interval = i}) = 1
              /\ \E sym \in DOMAIN candles' :
                    LET c == CHOOSE c \in {NewCalls[k] : k \in 1..Len(NewCalls)} :
                                 c.interval = i
                        before == Series(candles, sym, i)
                        after == Series(candles', sym, i)
                    IN  /\ c.symbol = sym
                        /\ c.price = event'.price[1]
                        /\ c.volume = event'.amount[1]
                        /\ c.period_start =
                               get_period_start(event'.block_timestamp, i)
                        /\ after # <<>>
                        /\ Last(after).timestamp = c.period_start
                        /\ Last(after).close = c.price
                        /\ Last(after).volume =
                               IF before # <<>>
                                  /\ Last(before).timestamp = c.period_start
                               THEN Last(before).volume + c.volume
                               ELSE c.volume]_vars

\* Two trades handled: all nine series exist, the one-minute series has one
\* candle for each, the weekly series one candle for both.
NineSeriesTwoTrades ==
    /\ Len(history) = 18
    /\ \E sym \in DOMAIN candles :
          /\ DOMAIN candles[sym] = Intervals
          /\ Len(candles[sym][60]) = 2
          /\ Len(candles[sym][604800]) = 1
          /\ candles[sym][604800][1].volume = 3

\* C13: handling a record without a type, of another type than "Trade", or a
\* Trade without price or amount creates no series and changes no candle.
OthersDropped ==
    [][(Handled /\ ~IsTrade(event'))
        => (candles' = candles /\ history' = history)]_vars

\* A record of another type, with price and amount, handled after a trade.
OtherTypeAfterTrade ==
    /\ event # <<>>
    /\ event.event_type = Some("Open")
    /\ event.price # None /\ event.amount # None
    /\ Len(history) = 9
    /\ env.delivered = 2


-----------------------------------------------------------------------------
(* Frame of add_price *)

\* The candles the call appends, counted from the buckets alone: none for the
\* last candle's bucket, the whole intervals up to a later bucket, one otherwise.
Added ==
    IF Before = <<>> THEN 1
    ELSE IF ThisCall.period_start = Last(Before).timestamp THEN 0
    ELSE IF IsLater THEN Distance
    ELSE 1

\* The candles the call drops from the front.
Evicted == Len(Before) + Added - Len(After)

\* C28: a call of add_price leaves every candle but the last as it was: a candle
\* that was not the last before the call and is not evicted by it is found
\* unchanged, moved down by the number of evicted candles.
OnlyLastCandleChanges ==
    [][IsCall =>
          /\ Evicted >= 0
          /\ \A i \in 1..(Len(Before) - 1) :
                i > Evicted => After[i - Evicted] = Before[i]]_vars

\* A trade was merged into the last candle of a series that holds an older
\* candle with a trade of its own.
MergedBehindOlder ==
    \E key \in SeriesKeys :
        LET s == candles[key[1]][key[2]] IN
        /\ Len(s) = 2
        /\ s[1].volume > 0
        /\ s[2].high > s[2].low
        /\ Len(history) = 3

\* C38: a series that has stayed below MAX_CANDLES, so that nothing was evicted
\* from it, holds in its candles' volumes the sum of the amounts of all calls
\* made for it; a call that evicts nothing adds its amount to that sum; and no
\* candle has a negative volume (the amounts are not negative).
VolumeConserved ==
    /\ [](\A key \in SeriesKeys :
             LET s == Series(candles, key[1], key[2])
             IN  /\ \A k \in DOMAIN s : s[k].volume >= 0
                 /\ Len(s) < MAX_CANDLES =>
                       SumVolume(s) = SumVolume(CallsOf(history, key[1], key[2])))
    /\ [][IsCall /\ Evicted = 0 =>
             SumVolume(After) = SumVolume(Before) + ThisCall.volume]_vars

\* Three trades went to a series of two candles, one of them merged into a
\* candle: nothing was evicted and the volumes add up to the three amounts.
ThreeTradesTwoCandles ==
    /\ Len(history) = 3
    /\ \E key \in SeriesKeys :
          /\ Len(Series(candles, key[1], key[2])) = 2
          /\ Len(CallsOf(history, key[1], key[2])) = 3
          /\ SumVolume(Series(candles, key[1], key[2])) = SumVolume(history)
          /\ \E k \in 1..2 : history[k].volume # history[k + 1].volume

\* C39: right after a call of add_price the series of the call holds a candle
\* and its last candle closes at the price of the call, wherever the event time
\* lies relative to the series.
LastClosesAtPrice ==
    [][IsCall => After # <<>> /\ Last(After).close = ThisCall.price]_vars

\* A call for a bucket before the series' last one has been made at another
\* price than the call before it: the last candle closes at the late call's
\* price.
EarlierCallClosesSeries ==
    /\ Len(history) >= 2
    /\ history[Len(history)].period_start < history[Len(history) - 1].period_start
    /\ history[Len(history)].price # history[Len(history) - 1].price
    /\ Last(Series(candles, history[Len(history)].symbol,
                   history[Len(history)].interval)).close = history[Len(history)].price

-----------------------------------------------------------------------------
(* Properties of the queries *)

\* The step is a query.
IsQuery == history' = history

\* C29: a query leaves the store as it is: its symbols, the intervals of each
\* symbol and every series.
QueriesKeepStore == [][IsQuery => candles' = candles]_vars

\* A query for a symbol the store does not have has returned, and the store
\* holds its one series.
UnknownSymbolQueried ==
    /\ probe.op \in {"get_candles", "get_candles_in_time_range"}
    /\ probe.symbol \notin DOMAIN candles
    /\ probe.result = <<>>
    /\ DOMAIN candles = {FoldSymbol}
    /\ DOMAIN candles[FoldSymbol] = {FoldInterval}

\* C30: get_candles returns min(count, length) candles, the k-th of them the
\* k-th from the end of the series, and none for a symbol or interval the store
\* does not have.
LastCandlesNewestFirst ==
    [][(probe'.op = "get_candles" /\ probe' # probe) =>
          LET s == Series(candles, probe'.symbol, probe'.interval)
              r == probe'.result
          IN  /\ Len(r) = Min(probe'.count, Len(s))
              /\ \A k \in 1..Len(r) : r[k] = s[Len(s) + 1 - k]
              /\ ~HasSeries(candles, probe'.symbol, probe'.interval) => r = <<>>]_vars

\* Two of three candles were asked for: the newest and the one before it.
TwoNewestReturned ==
    /\ probe.op = "get_candles"
    /\ probe.count = 2
    /\ HasSeries(candles, probe.symbol, probe.interval)
    /\ LET s == candles[probe.symbol][probe.interval]
       IN  /\ Len(s) = 3
           /\ s[2].timestamp # s[3].timestamp
           /\ probe.result = <<s[3], s[2]>>

\* The step is a call of get_candles_in_time_range.
IsRangeQuery ==
    /\ probe'.op = "get_candles_in_time_range"
    /\ probe' # probe
    /\ UNCHANGED <<candles, history>>

\* The positions of a series whose bucket start lies in [from, to].
InRange(s, from, to) == {k \in DOMAIN s : s[k].timestamp >= from /\ s[k].timestamp <= to}

\* C31: get_candles_in_time_range returns exactly the candles of the series
\* with from <= bucket start <= to, each once, in ascending order of bucket
\* start.
RangeChronological ==
    [][IsRangeQuery =>
          LET s == Series(candles, probe'.symbol, probe'.interval)
              r == probe'.result
          IN  /\ Len(r) = Cardinality(InRange(s, probe'.from, probe'.to))
              /\ \A k \in InRange(s, probe'.from, probe'.to) :
                    \E j \in DOMAIN r : r[j] = s[k]
              /\ \A j \in 1..(Len(r) - 1) : r[j].timestamp < r[j + 1].timestamp]_vars

\* The step is a call of get_min_max_timestamps.
IsMinMaxQuery ==
    /\ probe'.op = "get_min_max_timestamps"
    /\ UNCHANGED <<candles, history, env>>

\* The bucket starts of all candles of all series of the store.
StoreTimestamps ==
    UNION {{Series(candles, key[1], key[2])[k].timestamp :
                k \in DOMAIN Series(candles, key[1], key[2])} : key \in SeriesKeys}

\* C32: get_min_max_timestamps returns nothing exactly when add_price was never
\* called; otherwise it returns the smallest and the largest bucket start over
\* all series of all symbols and intervals, the smallest not above the largest.
MinMaxOverAllSeries ==
    [][IsMinMaxQuery =>
          LET r == probe'.result
          IN  /\ r = None <=> history = <<>>
              /\ r # None =>
                    /\ r[1][1] \in StoreTimestamps
                    /\ r[1][2] \in StoreTimestamps
                    /\ \A t \in StoreTimestamps : r[1][1] <= t /\ t <= r[1][2]
                    /\ r[1][1] <= r[1][2]]_vars

\* The query has answered over nine series of two trades: its smallest bucket
\* start is that of a long interval, below every bucket of the minute series,
\* and its largest is the last minute bucket.
MinMaxAcrossNineSeries ==
    /\ probe.op = "get_min_max_timestamps"
    /\ probe.result = get_min_max_timestamps(candles)
    /\ Cardinality(SeriesKeys) = 9
    /\ Len(history) = 18
    /\ Len(Series(candles, FoldSymbol, 60)) >= 2
    /\ \A k \in DOMAIN Series(candles, FoldSymbol, 60) :
          probe.result[1][1] < Series(candles, FoldSymbol, 60)[k].timestamp
    /\ probe.result[1][2] = Last(Series(candles, FoldSymbol, 60)).timestamp
    /\ probe.result[1][1] < probe.result[1][2]

-----------------------------------------------------------------------------
(* Properties of the history endpoint *)

\* The step is a call of get_history.
IsHistoryQuery ==
    /\ probe'.op = "get_history"
    /\ UNCHANGED <<candles, history, env>>

\* The resolution, the range and the range result of the call of the step.
AskedResolution == IF probe'.resolution = None THEN "60" ELSE probe'.resolution[1]

AskedFrom == IF probe'.from = None THEN 0 ELSE probe'.from[1]

AskedTo == IF probe'.to = None THEN Now ELSE probe'.to[1]

\* The intervals the interface gives the resolution strings.
ResolutionInterval(resolution) ==
    CASE resolution = "1" -> Some(60)
      [] resolution = "3" -> Some(180)
      [] resolution = "5" -> Some(300)
      [] resolution = "15" -> Some(900)
      [] resolution = "30" -> Some(1800)
      [] resolution = "60" -> Some(3600)
      [] resolution \in {"1D", "D"} -> Some(86400)
      [] resolution \in {"1W", "W"} -> Some(604800)
      [] resolution \in {"1M", "M"} -> Some(2592000)
      [] OTHER -> None

\* The candles of the asked range in the series of an interval, as stored.
RangeResult(interval) ==
    SelectSeq(Series(candles, probe'.symbol, interval),
              LAMBDA c : c.timestamp >= AskedFrom /\ c.timestamp <= AskedTo)

\* C33: the endpoint gives "1", "3", "5", "15", "30", "60", "1D"/"D", "1W"/"W",
\* "1M"/"M" the intervals 60, 180, 300, 900, 1800, 3600, 86400, 604800, 2592000
\* and answers from the series of that interval; only another string is
\* answered with s = "error".
ResolvesResolution ==
    [][IsHistoryQuery /\ probe'.symbol \in Symbols =>
          LET i == ResolutionInterval(AskedResolution)
              r == probe'.response
          IN  /\ i = None <=> r.s = "error"
              /\ i # None =>
                    /\ \A k \in DOMAIN r.t :
                          \E c \in DOMAIN RangeResult(i[1]) :
                              RangeResult(i[1])[c].timestamp = r.t[k]
                    /\ probe'.countback = None => Len(r.t) = Len(RangeResult(i[1]))]_vars

\* The bucket starts of a list of candles, in its order.
TimestampsOf(cs) == [k \in DOMAIN cs |-> cs[k].timestamp]

\* C34: with a countback below the number of candles of the range result the
\* response holds the last countback candles of the range result, which are
\* its most recent ones, in ascending order of bucket start; otherwise it holds
\* the whole range result.
TrimsToMostRecent ==
    [][IsHistoryQuery /\ probe'.response.s # "error" =>
          LET rr == RangeResult(ResolutionInterval(AskedResolution)[1])
              n == Len(rr)
              r == probe'.response
          IN  IF probe'.countback # None /\ n > probe'.countback[1]
              THEN LET kept == probe'.countback[1]
                   IN  /\ r.t = TimestampsOf(SubSeq(rr, n - kept + 1, n))
                       /\ \A j \in 1..(kept - 1) : r.t[j] < r.t[j + 1]
                       /\ \A k \in 1..(n - kept), j \in 1..kept :
                             rr[k].timestamp < r.t[j]
              ELSE r.t = TimestampsOf(rr)]_vars

\* C35: every response has s among "ok", "no_data" and "error" and arrays of
\* one length; s is "ok" exactly when a candle is returned, "no_data" with empty
\* arrays for a configured symbol and a resolution of the interface without a
\* selected candle, and "error" with empty arrays exactly for a symbol that is
\* not configured or a resolution outside the interface.
ResponseShape ==
    [][IsHistoryQuery =>
          LET r == probe'.response
              known == /\ probe'.symbol \in Symbols
                       /\ ResolutionInterval(AskedResolution) # None
          IN  /\ r.s \in {"ok", "no_data", "error"}
              /\ \A a \in {r.o, r.h, r.l, r.c, r.v} : Len(a) = Len(r.t)
              /\ r.s = "ok" <=> Len(r.t) >= 1
              /\ r.s = "error" <=> ~known
              /\ known /\ RangeResult(ResolutionInterval(AskedResolution)[1]) = <<>>
                    => r.s = "no_data"]_vars

-----------------------------------------------------------------------------
(* Properties of the Ingestor *)

\* The step hands a record to handle_order_event.
Delivered == env'.delivered = env.delivered + 1

\* The last call of add_price, once a trade has been folded.
LastCall == history[Len(history)]

\* C14: once the Ingestor of the pair configured with symbol S has folded a
\* trade, a range query for S on the pair's store returns the candle of the
\* trade's bucket.
FoldedUnderPairSymbol ==
    history # <<>> =>
        \E k \in DOMAIN get_candles_in_time_range(candles, ing.symbol, LastCall.interval,
                                                  LastCall.period_start, LastCall.period_start) :
            get_candles_in_time_range(candles, ing.symbol, LastCall.interval,
                                      LastCall.period_start, LastCall.period_start)[k].timestamp
                = LastCall.period_start

\* C15: no step assigns the cursor a value lower than the one it held.
CursorNeverDecreases == [][ing'.cursor >= ing.cursor]_vars

\* C16: a delivered record whose block_number is lower than the cursor is not
\* folded into any series and leaves the cursor as it was.
StaleRecordSkipped ==
    [][(Delivered /\ event'.block_number < ing.cursor)
        => (candles' = candles /\ ing'.cursor = ing.cursor)]_vars

\* C17: when a backfill stream yields an error, the cursor is left at the block
\* of the last folded record, or at start_block if none was folded.
BackfillErrorKeepsCursor ==
    [][(ing.pc = "hist_stream" /\ ing'.step = "batch_error")
        => ing'.cursor = env.last_folded]_vars

\* C18: every block from start_block to the cursor has been covered by a
\* request whose records were folded.  The cursor's own block, which no request
\* has covered when the task starts, is left out: the formula asks less than
\* the claim.
CursorCovered ==
    \A b \in StartBlock..(ing.cursor - 1) : b \in env.covered

\* C19: every live subscription request starts one block after the last folded
\* record, or after the last block covered by the backfill if no record has
\* been folded since.
SubscribesAfterLastFolded ==
    [][(ing.pc = "listen" /\ ing'.pc = "connecting")
        => ing'.from_block = env.anchor + 1]_vars

\* retry_delay exists from the start of listen_for_new_deltas on.
RetryDelayInRange ==
    ing.pc \in ListenPcs => (ing.retry_delay >= 1 /\ ing.retry_delay <= MaxRetryDelay)

\* listen_for_new_deltas starts.
StartsListening == ing.pc = "hist_loop" /\ ing'.pc = "listen"

\* The sleep that ends a subscription attempt is over.
Slept == ing.pc = "sleeping" /\ ing'.step = "slept"

\* The step leaves the sleep that follows a request that failed, and the task
\* goes on.
AfterFailedAttempt ==
    ing.step = "connect_error" /\ ing'.step # "connect_error" /\ ing'.pc # "exited"

ResetOnEstablished ==
    [][(ing.pc = "connecting" /\ ing'.pc = "live_stream") => ing'.retry_delay = 1]_vars

\* C22: a failure to open the session with the upstream does not end the task.
ClientFailureReconnects == ing.step = "client_error" => ing.pc # "exited"

\* C23: once the session is open, the task does not end: it is neither returned
\* with an error nor panicked.
NoErrorIsFatal ==
    ing.pc \in {"exited", "panicked"} => ing.step = "client_error"

\* C24: after a live stream has ended or yielded an error, a new subscription
\* request is issued.
Resubscribes ==
    (ing.step \in {"live_end", "live_error"}) ~> (ing.step = "subscribe")

-----------------------------------------------------------------------------
(* Properties of the Supervisor *)

\* C25: once the shutdown signal is sent the tasks stop, and the Supervisor
\* returns only when every task has finished.
ReturnsAfterTasks ==
    sup.pc = "returned" => \A s \in PairSymbols : sup.tasks[s] \in Ended

\* The step in which task s ends with an error or a panic.
TaskEnds(s) == sup.tasks[s] \notin Ended /\ sup'.tasks[s] \in Ended

\* C26: the step in which one task ends with an error or a panic leaves the
\* other tasks and the Supervisor where they are, and unless shutdown was
\* signaled the Supervisor returns only when every task has ended.
FailureContained ==
    /\ [](sup.pc = "returned" =>
            (sup.how = "shutdown" \/ \A s \in PairSymbols : sup.tasks[s] \in Ended))
    /\ [](sup.how = "shutdown" => sup.shutdown)
    /\ [][\A s \in PairSymbols :
            TaskEnds(s) =>
                /\ \A t \in PairSymbols \ {s} : sup'.tasks[t] = sup.tasks[t]
                /\ sup'.pc = sup.pc]_vars

\* One task has panicked, the other reads its live stream, and the Supervisor
\* is still in its select.
OneFailedOtherLive ==
    /\ sup.tasks["AAPL"] = "panicked"
    /\ sup.tasks["BTC-USDC"] = "live_stream"
    /\ sup.pc = "select"
    /\ ~sup.shutdown

-----------------------------------------------------------------------------
(* Properties of add_price next to a reader *)

\* The store after the call that last took the write lock, as add_price in one
\* step computes it.
PostFold ==
    IF lock.call = None THEN lock.pre
    ELSE store_add_price(lock.pre, lock.call[1].symbol, lock.call[1].interval,
                         lock.call[1].price, lock.call[1].volume,
                         lock.call[1].event_time)

\* C27: what a reader collects is its range of the series before the fold or of
\* the series after the whole fold.
ReaderSeesWholeFold ==
    [][(probe.op = "reading" /\ probe'.op = "done") =>
          \/ probe'.result = get_candles_in_time_range(lock.pre, FoldSymbol, FoldInterval,
                                                       probe.from, probe.to)
          \/ probe'.result = get_candles_in_time_range(PostFold, FoldSymbol, FoldInterval,
                                                       probe.from, probe.to)]_vars

\* A reader has collected a series that a fold with a gap of two buckets and an
\* eviction has just left.
ReadAfterGapFold ==
    /\ probe.op = "done"
    /\ Len(probe.result) = MAX_CANDLES
    /\ probe.result[1].volume = 0
    /\ probe.result[2].volume = 0
    /\ probe.result[MAX_CANDLES].volume > 0
    /\ Len(history) = 2

-----------------------------------------------------------------------------
(* Properties of the Ingestor at its suspension points *)

\* The add_price calls made so far for an interval.
FoldsOf(interval) == Cardinality({k \in DOMAIN history : history[k].interval = interval})

BatchRequested == ing.pc = "hist_loop" /\ ing'.step = "batch_request"

Subscribed == ing.pc = "listen" /\ ing'.step = "subscribe"

\* C37: no request asks for a block an earlier request of the task has covered
\* with its records folded: a batch range shares no block with the batches
\* before it, and a subscription starts past every covered block.
RequestsShareNoBlock ==
    [][/\ BatchRequested =>
             \A b \in ing'.from_block..ing'.to_block : b \notin env.covered
       /\ Subscribed => \A b \in env.covered : b < ing'.from_block]_vars

-----------------------------------------------------------------------------
(* Properties of fetch_historical_data *)

\* The step ends an iteration of the batch loop.
BatchOver == ing.pc = "hist_stream" /\ ing'.pc = "hist_loop"

\* The step returns from fetch_historical_data with Ok.
BackfillReturns == ing.pc = "hist_loop" /\ ing'.pc = "listen"

\* C40: with every batch stream ending, fetch_historical_data comes to an end;
\* each iteration of its loop moves the cursor up, by at most the batch size
\* and not past the latest block, which is fetched once; it returns the larger
\* of start block and latest block, and sends no request when the start block
\* is not below the latest block.
BackfillTerminates ==
    /\ (ing.pc = "hist_begin") ~> (ing.pc \in {"listen"} \cup Ended)
    /\ [][BatchOver => /\ ing.cursor < ing'.cursor
                       /\ ing'.cursor <= ing.cursor + BatchSize
                       /\ ing'.cursor <= ing.target]_vars
    /\ [][ing.pc \in {"hist_loop", "hist_stream"} => ing'.target = ing.target]_vars
    /\ [][BackfillReturns => ing'.cursor = Max(StartBlock, ing.target)]_vars
    /\ [][BatchRequested => StartBlock < ing.target]_vars

\* The backfill has returned after more than one batch, with records folded.
ReturnedAfterTwoBatches ==
    /\ ing.pc = "listen"
    /\ ing.target > StartBlock + BatchSize
    /\ ing.cursor = ing.target
    /\ ing.from_block > StartBlock
    /\ env.covered = StartBlock..ing.target
    /\ env.delivered = MaxRecords

\* The backfill has returned at a start block above the latest block without a
\* request.
ReturnedWithoutRequest ==
    /\ ing.pc = "listen"
    /\ ing.target < StartBlock
    /\ ing.cursor = StartBlock
    /\ ing.to_block = 0

=============================================================================
